---- MODULE Spec2Model ----
(***************************************************************************)
(* State-machine model of the OpenTargets association table                *)
(* (src/src/App.jsx): the App data loader (one fetch, three view states)   *)
(* and the per-row Row component (expand toggle, chart tabs, resize        *)
(* effect, memoised normalised score vector).                              *)
(*                                                                         *)
(* JavaScript values that cross the network are modelled as tagged         *)
(* records so that truthiness, optional chaining and property access       *)
(* behave as in the language.  Scores are integers (tenths).               *)
(* Category identifiers are kept as their '_'-separated segments.          *)
(***************************************************************************)
EXTENDS Integers, Sequences, FiniteSets, TLC

\* ------------------------------------------------------------------ bounds
\* Largest number of well-formed rows a modelled response carries.
MaxRows == 2
\* Largest number of zero-delay timers pending in the browser's timer queue.
MaxTimers == 2
\* Largest number of fetch calls the model follows (the code has no cap).
MaxFetches == 2
\* Category scores range over 1..MaxScore.
MaxScore == 2

VARIABLES
    pc,            \* position of the async fetchData: start/fetching/parsing/done
    fetchCount,    \* number of fetch() calls issued so far
    response,      \* how fetch() settled: rejected, or the Response (ok, body)
    targets,       \* App state `targets` (a JS value)
    isLoading,     \* App state `isLoading`
    error,         \* App state `error` (null or a message string)
    appMounted,    \* the React tree is mounted
    crashed,       \* a render threw: React removed the whole tree
    open,          \* Row state `open`, per row
    tabValue,      \* Row state `tabValue`, per row
    contentMounted,\* the children of <Collapse unmountOnExit> are in the DOM
    effectsPending,\* the rows are mounted and their first effect run is still due
    exitBarrier,   \* timers that expire before the running exit transition ends
    listeners,     \* window 'resize' listeners registered by each row
    timers,        \* pending setTimeout(..., 0) callbacks, in firing order
    chartDataMemo, \* the memoised chartData of each row
    ev,            \* the step that led to this state (kind, row)
    resized,       \* <<row, chart>> pairs on which resize() was called by it
    recomputed,    \* rows whose chartData factory ran in it
    scoresIn,      \* input of the normalisation check
    chartOut       \* its output

vars == <<pc, fetchCount, response, targets, isLoading, error, appMounted,
          crashed, open, tabValue, contentMounted, effectsPending,
          exitBarrier, listeners,
          timers, chartDataMemo, ev, resized, recomputed,
          scoresIn, chartOut>>

appVars == <<pc, fetchCount, response, targets, isLoading, error, crashed>>
rowVars == <<open, tabValue, contentMounted, effectsPending, exitBarrier,
             listeners, chartDataMemo>>
normVars == <<scoresIn, chartOut>>

\* ------------------------------------------------------------- JS values
JUndefined == [t |-> "undefined"]
JNull == [t |-> "null"]
JNum(n) == [t |-> "num", n |-> n]
JStr(s) == [t |-> "str", s |-> s]
JBool(b) == [t |-> "bool", b |-> b]
JArr(items) == [t |-> "arr", items |-> items]
JObj(f) == [t |-> "obj", f |-> f]
EmptyObj == JObj(<<>>)

\* JavaScript truthiness.
Truthy(v) ==
    CASE v.t \in {"undefined", "null"} -> FALSE
      [] v.t = "num" -> v.n # 0
      [] v.t = "str" -> v.s # ""
      [] v.t = "bool" -> v.b
      [] OTHER -> TRUE

\* v.k : reading a property of null or undefined throws a TypeError.
Nullish(v) == v.t \in {"undefined", "null"}

Get(v, k) ==
    CASE v.t = "obj" -> IF k \in DOMAIN v.f THEN v.f[k] ELSE JUndefined
      [] v.t = "arr" /\ k = "length" -> JNum(Len(v.items))
      [] v.t = "str" /\ k = "length" -> JNum(Len(v.s))
      [] OTHER -> JUndefined

\* v?.k
OptGet(v, k) == IF Nullish(v) THEN JUndefined ELSE Get(v, k)

\* ------------------------------------------------------ score normalisation
Lit == <<"literature">>
Rna == <<"rna", "expression">>
Gen == <<"genetic", "association">>
Som == <<"somatic", "mutation">>
Drug == <<"known", "drug">>
Animal == <<"animal", "model">>
Path == <<"affected", "pathway">>
\* A category of the external vocabulary that the table does not display.
Unknown == <<"rna", "seq", "other">>

allDataTypes == <<Lit, Rna, Gen, Som, Drug, Animal, Path>>

toLowerCase(w) ==
    CASE w = "RNA" -> "rna"
      [] w = "Rna" -> "rna"
      [] OTHER -> w

\* word.charAt(0).toUpperCase() + word.slice(1)
Capitalize(w) ==
    CASE w = "literature" -> "Literature"
      [] w = "expression" -> "Expression"
      [] w = "genetic" -> "Genetic"
      [] w = "association" -> "Association"
      [] w = "somatic" -> "Somatic"
      [] w = "mutation" -> "Mutation"
      [] w = "known" -> "Known"
      [] w = "drug" -> "Drug"
      [] w = "animal" -> "Animal"
      [] w = "model" -> "Model"
      [] w = "affected" -> "Affected"
      [] w = "pathway" -> "Pathway"
      [] w = "rna" -> "Rna"
      [] w = "seq" -> "Seq"
      [] w = "other" -> "Other"
      [] OTHER -> w

\* The label as its words; the code joins them with single spaces.
formatLabel(label) ==
    [i \in DOMAIN label |->
        IF toLowerCase(label[i]) = "rna" THEN "RNA" ELSE Capitalize(label[i])]

\* Array.prototype.find: the first element with the id, or undefined (<<>>).
RECURSIVE find(_, _)
find(scores, type) ==
    IF scores = <<>> THEN <<>>
    ELSE IF Head(scores).id = type THEN <<Head(scores)>>
    ELSE find(Tail(scores), type)

foundValue(foundScore) ==
    IF foundScore # <<>> THEN foundScore[1].score ELSE 0

\* Mutant: maps over the row's own scores, without the zero fill.
chartData_NoFill(datatypeScores) ==
    [i \in DOMAIN datatypeScores |->
        [name |-> formatLabel(datatypeScores[i].id),
         value |-> datatypeScores[i].score]]

chartData(datatypeScores) ==
    [i \in DOMAIN allDataTypes |->
        [name |-> formatLabel(allDataTypes[i]),
         value |-> foundValue(find(datatypeScores, allDataTypes[i]))]]

\* ----------------------------------------------------------- sample payloads
\* The sparse datatypeScores of the i-th sample row.
SampleScores(i) ==
    IF i = 1 THEN <<[id |-> Gen, score |-> 2], [id |-> Lit, score |-> 1]>>
    ELSE IF i = 2 THEN <<[id |-> Rna, score |-> 1], [id |-> Unknown, score |-> 2]>>
    ELSE <<>>

SampleRow(i) ==
    JObj([target |-> JObj([id |-> JNum(i)]),
          score |-> JNum(i),
          datatypeScores |-> JArr(SampleScores(i))])

SampleRows(n) == JArr([i \in 1..n |-> SampleRow(i)])

\* { data: { disease: { associatedTargets: { rows: v } } } }
Body(v) ==
    JObj([data |-> JObj([disease |-> JObj([associatedTargets |->
        JObj([rows |-> v])])])])

\* Values found at the expected path: falsy ones, well-formed row lists
\* (empty included) and truthy values that are not well-formed row lists.
RowsValues ==
    {JNull, JNum(0), JStr(""), JBool(FALSE)}
    \cup {SampleRows(n) : n \in 0..MaxRows}
    \cup {JNum(5), EmptyObj, JStr("abc"), JArr(<<EmptyObj>>), JArr(<<JNull>>),
          JArr(<<SampleRow(1), JObj([target |-> JObj([id |-> JNum(9)])])>>)}

\* JSON documents the endpoint may answer with.
Bodies ==
    {JNull, JNum(5), EmptyObj,
     JObj([data |-> JNull]),
     JObj([data |-> JObj([disease |-> JNull])]),
     JObj([data |-> JObj([disease |-> JObj([associatedTargets |-> JNull])])]),
     JObj([data |-> JObj([disease |-> JObj([associatedTargets |-> EmptyObj])])])}
    \cup {Body(v) : v \in RowsValues}

\* A response body that is not JSON.
NotJson == [t |-> "notjson"]
NoResponse == [kind |-> "none", ok |-> FALSE, body |-> NotJson]

\* Messages of the errors fetchData can catch.  The first two are thrown by
\* the code; the others are the non-empty messages of the engine's TypeError
\* and SyntaxError.
MsgNotOk == "Network response was not ok"
MsgShape == "Data structure from API is not as expected."
MsgFetch == "Failed to fetch"
MsgSyntax == "Unexpected token < in JSON at position 0"
MsgNullResult == "Cannot read properties of null (reading 'data')"

\* ------------------------------------------------------------------- App
\* The fixed GraphQL query text (a string: compared by value).
query == "query lungCarcinomaAssociatedTargets"

\* Mutant: a dependency that is a new object on every render.
QueryDepChanged_EveryRender(prev, next) == TRUE

\* useEffect(..., [query]): the effect runs again iff the dependency differs
\* from the one of the previous render (Object.is).
QueryDepChanged(prev, next) == prev # next

\* result.data?.disease?.associatedTargets?.rows ; `result.data` is a plain
\* property access and throws when result is null.
RowsAtPath(result) ==
    OptGet(OptGet(OptGet(Get(result, "data"), "disease"),
                  "associatedTargets"), "rows")

\* Mutant: the shape of the answer is not checked.
ShapeOk_Unchecked(result) == TRUE

\* if (result.data?.disease?.associatedTargets?.rows)
ShapeOk(result) == Truthy(RowsAtPath(result))

\* if (isLoading) ... ; if (error) ... ; otherwise the table.
View ==
    IF crashed \/ ~appMounted THEN "none"
    ELSE IF isLoading THEN "loading"
    ELSE IF Truthy(error) THEN "error"
    ELSE "ready"

\* targets.length > 0
LengthPositive(v) == Get(v, "length").t = "num" /\ Get(v, "length").n > 0

\* Rendering one Row reads row.target.id, row.datatypeScores.find(...) and
\* row.score.toFixed(3): each throws a TypeError on a value of another shape.
RowRenderThrows(row) ==
    \/ Nullish(row)
    \/ Nullish(Get(row, "target"))
    \/ Get(row, "datatypeScores").t # "arr"
    \/ Get(row, "score").t # "num"

\* The table body: targets.length > 0 ? targets.map(row => <Row .../>) : placeholder
TableRenderThrows(v) ==
    \/ Nullish(v)
    \/ LengthPositive(v) /\
        (\/ v.t # "arr"
         \/ \E i \in DOMAIN v.items : RowRenderThrows(v.items[i]))

\* Number of Row components the table holds.
RowCount(v) == IF LengthPositive(v) /\ v.t = "arr" THEN Len(v.items) ELSE 0

\* The mounted Row components.
Rows == IF View = "ready" THEN 1..RowCount(targets) ELSE {}

\* Whether the single placeholder row ("No data available.") is shown.
Placeholder == View = "ready" /\ ~LengthPositive(targets)

\* ------------------------------------------------------------------- Row
AllRows == 1..MaxRows
Closure(o, t) == [open |-> o, tab |-> t]

\* barChartRef.current / radarChartRef.current are non-null while the chart
\* is in the DOM: inside the mounted Collapse content, under its own tab.
barChartRef(r) == r \in Rows /\ contentMounted[r] /\ tabValue[r] = 0
radarChartRef(r) == r \in Rows /\ contentMounted[r] /\ tabValue[r] = 1

\* Mutant: only the bar chart is ever resized.
handleResize_BarOnly(c, r) ==
    IF c.open /\ barChartRef(r) THEN {0} ELSE {}

\* handleResize as closed over the `open` and `tabValue` of the render that
\* created it: the set of charts of row r it calls resize() on.
handleResize(c, r) ==
    IF c.open
    THEN IF c.tab = 0 /\ barChartRef(r) THEN {0}
         ELSE IF c.tab = 1 /\ radarChartRef(r) THEN {1}
         ELSE {}
    ELSE {}

\* window.removeEventListener('resize', h): drops the registration of h.
RECURSIVE removeEventListener(_, _)
removeEventListener(ls, h) ==
    IF ls = <<>> THEN <<>>
    ELSE IF Head(ls) = h THEN Tail(ls)
    ELSE <<Head(ls)>> \o removeEventListener(Tail(ls), h)

\* Mutant: the effect returns no cleanup.
EffectCleanup_Missing(ls, prev) == ls

\* The cleanup returned by the previous run of the effect.
EffectCleanup(ls, prev) == removeEventListener(ls, prev)

\* Mutant: the listener is added only while the row is open.
EffectListeners_OnlyOpen(ls, po, pt, o, t) ==
    IF o THEN Append(removeEventListener(ls, Closure(po, pt)), Closure(o, t))
    ELSE removeEventListener(ls, Closure(po, pt))

\* One run of the resize effect of row r after a render with (o, t), the
\* previous render having had (po, pt): cleanup, then addEventListener.
EffectListeners(ls, po, pt, o, t) ==
    Append(EffectCleanup(ls, Closure(po, pt)), Closure(o, t))

\* setTimeout(() => handleResize(), 0)
EffectTimer(r, o, t) == [row |-> r, open |-> o, tab |-> t]

\* `const allDataTypes = [...]` in the body of Row: every render evaluates
\* the literal to a new array, whose identity is that of the render.
allDataTypesRef(render) == render

\* useMemo(..., [row.datatypeScores, allDataTypes]): Object.is on each dep.
MemoDepsChanged(prevScores, nextScores, prevTypes, nextTypes) ==
    prevScores # nextScores \/ prevTypes # nextTypes

\* row.datatypeScores of the r-th mounted row.
RowScores(tg, r) == Get(tg.items[r], "datatypeScores").items

\* A re-render of Row r (same row prop): its effect on the memo.
RowRerender(r) ==
    IF MemoDepsChanged(r, r, allDataTypesRef("previous render"),
                             allDataTypesRef("this render"))
    THEN /\ chartDataMemo' = [chartDataMemo EXCEPT ![r] = chartData(RowScores(targets, r))]
         /\ recomputed' = {r}
    ELSE /\ UNCHANGED chartDataMemo
         /\ recomputed' = {}

\* Mutant: opening a row resets its tab to the bar chart.
TabAfterToggle_Reset(o, t) == IF o THEN 0 ELSE t

\* setOpen(!open) leaves the `tabValue` state as it is.
TabAfterToggle(o, t) == t

\* State of rows that are not mounted.
NoRows ==
    /\ open' = [r \in AllRows |-> FALSE]
    /\ tabValue' = [r \in AllRows |-> 0]
    /\ contentMounted' = [r \in AllRows |-> FALSE]
    /\ exitBarrier' = [r \in AllRows |-> 0]
    /\ chartDataMemo' = [r \in AllRows |-> <<>>]
    /\ effectsPending' = FALSE

\* Unmounting every Row: the cleanup of each effect that ran removes its
\* listener; pending timers are not cleared.
UnmountRows ==
    /\ NoRows
    /\ listeners' = [r \in AllRows |->
            IF r \in Rows /\ ~effectsPending
            THEN EffectCleanup(listeners[r], Closure(open[r], tabValue[r]))
            ELSE listeners[r]]

\* First render of the n rows of tg: useState(false), useState(0), the memo
\* is computed.  The update comes from a promise continuation, so React runs
\* the rows' effects in a later task.
MountRows(tg, n) ==
    /\ open' = [r \in AllRows |-> FALSE]
    /\ tabValue' = [r \in AllRows |-> 0]
    /\ contentMounted' = [r \in AllRows |-> FALSE]
    /\ exitBarrier' = [r \in AllRows |-> 0]
    /\ chartDataMemo' = [r \in AllRows |->
            IF r <= n THEN chartData(RowScores(tg, r)) ELSE <<>>]
    /\ effectsPending' = (n > 0)
    /\ recomputed' = 1..n
    /\ UNCHANGED <<listeners, timers>>

\* --------------------------------------------------------- App actions
\* The mount effect: fetchData() up to its first await.
FetchStart ==
    /\ pc = "start" /\ appMounted /\ ~crashed
    /\ fetchCount < MaxFetches
    /\ pc' = "fetching"
    /\ fetchCount' = fetchCount + 1
    /\ isLoading' = TRUE
    /\ error' = JNull
    /\ UnmountRows
    /\ ev' = [kind |-> "fetch", row |-> 0]
    /\ resized' = {} /\ recomputed' = {}
    /\ UNCHANGED <<response, targets, appMounted, crashed, timers, normVars>>

\* catch/finally and the success path end the same way: the state updates
\* are applied in one render (err is the new `error`, tg the new `targets`).
Settle(err, tg) ==
    /\ pc' = IF QueryDepChanged(query, query) /\ appMounted THEN "start" ELSE "done"
    /\ ev' = [kind |-> "settle", row |-> 0]
    /\ resized' = {}
    /\ UNCHANGED <<fetchCount, appMounted, normVars>>
    /\ IF ~appMounted
       THEN UNCHANGED <<targets, isLoading, error, crashed, rowVars, timers,
                        recomputed>>
       ELSE /\ targets' = tg
            /\ error' = err
            /\ isLoading' = FALSE
            /\ IF Truthy(err)
               THEN /\ crashed' = FALSE
                    /\ recomputed' = {}
                    /\ UNCHANGED <<rowVars, timers>>
               ELSE IF TableRenderThrows(tg)
               THEN /\ crashed' = TRUE
                    /\ recomputed' = {}
                    /\ UNCHANGED <<rowVars, timers>>
               ELSE /\ crashed' = FALSE
                    /\ MountRows(tg, RowCount(tg))

\* await fetch(...) rejects (no connection): catch, finally.
FetchReject ==
    /\ pc = "fetching"
    /\ response' = [kind |-> "rejected", ok |-> FALSE, body |-> NotJson]
    /\ Settle(JStr(MsgFetch), targets)

\* await fetch(...) resolves: !response.ok throws, else response.json() is awaited.
FetchResolve(ok, body) ==
    /\ pc = "fetching"
    /\ response' = [kind |-> "resolved", ok |-> ok, body |-> body]
    /\ IF ~ok
       THEN Settle(JStr(MsgNotOk), targets)
       ELSE /\ pc' = "parsing"
            /\ ev' = [kind |-> "response", row |-> 0]
            /\ resized' = {} /\ recomputed' = {}
            /\ UNCHANGED <<fetchCount, targets, isLoading, error, appMounted,
                           crashed, rowVars, timers, normVars>>

\* await response.json() settles: the shape check, catch, finally.
JsonSettled ==
    /\ pc = "parsing"
    /\ UNCHANGED response
    /\ LET result == response.body IN
       IF result = NotJson THEN Settle(JStr(MsgSyntax), targets)
       ELSE IF Nullish(result) THEN Settle(JStr(MsgNullResult), targets)
       ELSE IF ShapeOk(result) THEN Settle(error, RowsAtPath(result))
       ELSE Settle(JStr(MsgShape), targets)

\* React unmounts the tree (root teardown): effect cleanups run.
Unmount ==
    /\ appMounted /\ ~crashed
    /\ appMounted' = FALSE
    /\ UnmountRows
    /\ ev' = [kind |-> "unmount", row |-> 0]
    /\ resized' = {} /\ recomputed' = {}
    /\ UNCHANGED <<pc, fetchCount, response, targets, isLoading, error,
                   crashed, timers, normVars>>

\* --------------------------------------------------------- Row actions
\* The first run of the resize effect of every mounted row: timer, listener.
FlushEffects ==
    /\ effectsPending /\ Rows # {}
    /\ effectsPending' = FALSE
    /\ listeners' = [r \in AllRows |->
            IF r \in Rows THEN Append(listeners[r], Closure(open[r], tabValue[r]))
            ELSE listeners[r]]
    /\ timers' = timers \o [r \in 1..Cardinality(Rows) |->
            EffectTimer(r, open[r], tabValue[r])]
    /\ ev' = [kind |-> "effects", row |-> 0]
    /\ resized' = {} /\ recomputed' = {}
    /\ UNCHANGED <<appVars, appMounted, open, tabValue, contentMounted,
                   exitBarrier, chartDataMemo, normVars>>

\* onClick={() => setOpen(!open)}, the re-render and the effect.
Toggle(r) ==
    /\ r \in Rows /\ ~effectsPending
    /\ Len(timers) < MaxTimers
    /\ LET o == ~open[r]
           t == TabAfterToggle(o, tabValue[r]) IN
       /\ open' = [open EXCEPT ![r] = o]
       /\ tabValue' = [tabValue EXCEPT ![r] = t]
       /\ contentMounted' = [contentMounted EXCEPT ![r] = o \/ contentMounted[r]]
       /\ timers' = Append(timers, EffectTimer(r, o, t))
       /\ exitBarrier' = [exitBarrier EXCEPT ![r] = IF o THEN 0 ELSE Len(timers) + 1]
       /\ listeners' = [listeners EXCEPT ![r] =
                EffectListeners(listeners[r], open[r], tabValue[r], o, t)]
    /\ RowRerender(r)
    /\ ev' = [kind |-> "toggle", row |-> r]
    /\ resized' = {}
    /\ UNCHANGED <<appVars, appMounted, effectsPending, normVars>>

\* Tabs onChange -> handleTabChange(event, newValue), the re-render and the
\* effect.  The tabs are in the DOM while the Collapse content is.
TabChange(r, newValue) ==
    /\ r \in Rows /\ ~effectsPending
    /\ contentMounted[r]
    /\ newValue # tabValue[r]
    /\ Len(timers) < MaxTimers
    /\ tabValue' = [tabValue EXCEPT ![r] = newValue]
    /\ timers' = Append(timers, EffectTimer(r, open[r], newValue))
    /\ listeners' = [listeners EXCEPT ![r] =
            EffectListeners(listeners[r], open[r], tabValue[r], open[r], newValue)]
    /\ RowRerender(r)
    /\ ev' = [kind |-> "tab", row |-> r]
    /\ resized' = {}
    /\ UNCHANGED <<appVars, appMounted, open, contentMounted, effectsPending,
                   exitBarrier, normVars>>

\* The oldest zero-delay timer fires: handleResize() of its closure.
TimerFire ==
    /\ timers # <<>>
    /\ LET c == Head(timers) IN
       /\ resized' = {<<c.row, ch>> : ch \in handleResize(Closure(c.open, c.tab), c.row)}
       /\ ev' = [kind |-> "timer", row |-> c.row]
    /\ timers' = Tail(timers)
    /\ exitBarrier' = [r \in AllRows |->
            IF exitBarrier[r] > 0 THEN exitBarrier[r] - 1 ELSE 0]
    /\ recomputed' = {}
    /\ UNCHANGED <<appVars, appMounted, open, tabValue, contentMounted,
                   effectsPending, listeners, chartDataMemo, normVars>>

\* The browser dispatches 'resize' on window: every registered listener runs.
WindowResize ==
    /\ ev' = [kind |-> "resize", row |-> 0]
    /\ resized' = UNION { UNION {
            {<<r, ch>> : ch \in handleResize(listeners[r][i], r)} :
                i \in DOMAIN listeners[r]} : r \in AllRows}
    /\ recomputed' = {}
    /\ UNCHANGED <<appVars, appMounted, rowVars, timers, normVars>>

\* The exit transition of <Collapse unmountOnExit> ends: its children (tabs
\* and chart) leave the DOM.  Its duration is positive, so the zero-delay
\* timers set before it started have fired.
ExitDone(r) ==
    /\ r \in Rows
    /\ ~open[r] /\ contentMounted[r]
    /\ exitBarrier[r] = 0
    /\ contentMounted' = [contentMounted EXCEPT ![r] = FALSE]
    /\ ev' = [kind |-> "exited", row |-> r]
    /\ resized' = {} /\ recomputed' = {}
    /\ UNCHANGED <<appVars, appMounted, open, tabValue, effectsPending,
                   exitBarrier, listeners, timers, chartDataMemo, normVars>>

\* ------------------------------------------------------- specifications
Init ==
    /\ pc = "start"
    /\ fetchCount = 0
    /\ response = NoResponse
    /\ targets = JArr(<<>>)
    /\ isLoading = TRUE
    /\ error = JNull
    /\ appMounted = TRUE
    /\ crashed = FALSE
    /\ open = [r \in AllRows |-> FALSE]
    /\ tabValue = [r \in AllRows |-> 0]
    /\ contentMounted = [r \in AllRows |-> FALSE]
    /\ effectsPending = FALSE
    /\ exitBarrier = [r \in AllRows |-> 0]
    /\ listeners = [r \in AllRows |-> <<>>]
    /\ timers = <<>>
    /\ chartDataMemo = [r \in AllRows |-> <<>>]
    /\ ev = [kind |-> "init", row |-> 0]
    /\ resized = {}
    /\ recomputed = {}
    /\ scoresIn = <<>>
    /\ chartOut = <<>>

Next ==
    \/ FetchStart
    \/ FetchReject
    \/ \E ok \in BOOLEAN, body \in Bodies \cup {NotJson} : FetchResolve(ok, body)
    \/ JsonSettled
    \/ Unmount
    \/ FlushEffects
    \/ \E r \in AllRows : Toggle(r)
    \/ \E r \in AllRows, v \in {0, 1} : TabChange(r, v)
    \/ TimerFire
    \/ WindowResize
    \/ \E r \in AllRows : ExitDone(r)

Spec == Init /\ [][Next]_vars

\* The event loop runs every pending timer.
FairSpec == Spec /\ WF_vars(TimerFire)

\* ---------------------------------------- normalisation over sparse inputs
\* The ids a row may carry: the seven displayed categories and an unknown one.
InputIds == allDataTypes \o <<Unknown>>

\* The (id, score) pairs of the ids that f populates (f[i] > 0), in the
\* order given by idxs.
RECURSIVE Pairs(_, _)
Pairs(f, idxs) ==
    IF idxs = <<>> THEN <<>>
    ELSE (IF f[Head(idxs)] > 0
          THEN <<[id |-> InputIds[Head(idxs)], score |-> f[Head(idxs)]]>>
          ELSE <<>>) \o Pairs(f, Tail(idxs))

Forward == [i \in 1..Len(InputIds) |-> i]
Backward == [i \in 1..Len(InputIds) |-> Len(InputIds) + 1 - i]

\* Every sparse score set over InputIds with scores in 1..MaxScore, listed
\* in either order.
ScoreLists ==
    {Pairs(f, ord) : f \in [1..Len(InputIds) -> 0..MaxScore],
                     ord \in {Forward, Backward}}

InitNorm ==
    /\ pc = "start"
    /\ fetchCount = 0
    /\ response = NoResponse
    /\ targets = JArr(<<>>)
    /\ isLoading = TRUE
    /\ error = JNull
    /\ appMounted = TRUE
    /\ crashed = FALSE
    /\ open = [r \in AllRows |-> FALSE]
    /\ tabValue = [r \in AllRows |-> 0]
    /\ contentMounted = [r \in AllRows |-> FALSE]
    /\ effectsPending = FALSE
    /\ exitBarrier = [r \in AllRows |-> 0]
    /\ listeners = [r \in AllRows |-> <<>>]
    /\ timers = <<>>
    /\ chartDataMemo = [r \in AllRows |-> <<>>]
    /\ ev = [kind |-> "init", row |-> 0]
    /\ resized = {}
    /\ recomputed = {}
    /\ scoresIn \in ScoreLists
    /\ chartOut = <<>>

\* Row evaluates the useMemo factory on row.datatypeScores.
ComputeChartData ==
    /\ chartOut = <<>>
    /\ chartOut' = chartData(scoresIn)
    /\ ev' = [kind |-> "chartData", row |-> 0]
    /\ UNCHANGED <<appVars, appMounted, rowVars, timers, resized, recomputed,
                   scoresIn>>

NextNorm == ComputeChartData

NormSpec == InitNorm /\ [][NextNorm]_vars

\* ================================================================ claims

\* The labels of the seven categories, in the canonical order.
CanonicalLabels ==
    << <<"Literature">>, <<"RNA", "Expression">>, <<"Genetic", "Association">>,
       <<"Somatic", "Mutation">>, <<"Known", "Drug">>, <<"Animal", "Model">>,
       <<"Affected", "Pathway">> >>

CanonicalIds ==
    << <<"literature">>, <<"rna", "expression">>, <<"genetic", "association">>,
       <<"somatic", "mutation">>, <<"known", "drug">>, <<"animal", "model">>,
       <<"affected", "pathway">> >>

\* The scores a sparse list gives for an id.
ScoresFor(list, id) == {list[k].score : k \in {j \in DOMAIN list : list[j].id = id}}

\* C1: for every sparse score set, the normalised vector has exactly seven
\* entries in the canonical order; a populated category carries its score
\* and every absent category is 0.
C1_NormalizedVector ==
    chartOut # <<>> =>
        /\ Len(chartOut) = 7
        /\ \A i \in 1..7 :
            /\ chartOut[i].name = CanonicalLabels[i]
            /\ IF ScoresFor(scoresIn, CanonicalIds[i]) = {}
               THEN chartOut[i].value = 0
               ELSE ScoresFor(scoresIn, CanonicalIds[i]) = {chartOut[i].value}

\* {genetic_association: 2, literature: 1} has been normalised to
\* [1, 0, 2, 0, 0, 0, 0].
C1_Witness ==
    /\ scoresIn = <<[id |-> Gen, score |-> 2], [id |-> Lit, score |-> 1]>>
    /\ chartOut # <<>>
    /\ [i \in 1..Len(chartOut) |-> chartOut[i].value] = <<1, 0, 2, 0, 0, 0, 0>>

\* The path data.disease.associatedTargets.rows exists in a JSON document.
HasPath(body) ==
    /\ body.t = "obj" /\ "data" \in DOMAIN body.f
    /\ body.f["data"].t = "obj" /\ "disease" \in DOMAIN body.f["data"].f
    /\ body.f["data"].f["disease"].t = "obj"
    /\ "associatedTargets" \in DOMAIN body.f["data"].f["disease"].f
    /\ body.f["data"].f["disease"].f["associatedTargets"].t = "obj"
    /\ "rows" \in DOMAIN body.f["data"].f["disease"].f["associatedTargets"].f

\* The fetch failed in one of the three ways.
FetchFailed ==
    /\ response.kind = "resolved"
    /\ \/ ~response.ok
       \/ response.body = NotJson
       \/ ~HasPath(response.body)

\* Number of data rows on screen.
DataRows == Cardinality(Rows)

\* C2: when the fetch fails (non-success status, unparsable body, JSON
\* lacking the rows path) the loader ends in the error state with a
\* non-empty message, no data row is rendered and ready is never shown.
C2_FailureEndsInError ==
    (appMounted /\ FetchFailed) =>
        /\ View # "ready"
        /\ DataRows = 0
        /\ ~Placeholder
        /\ pc = "done" =>
            /\ View = "error"
            /\ error.t = "str" /\ error.s # ""

\* A JSON answer without the rows path has been handled.
C2_Witness ==
    /\ pc = "done" /\ appMounted
    /\ response.kind = "resolved" /\ response.ok
    /\ response.body # NotJson /\ ~HasPath(response.body)
    /\ View = "error"

\* C3: exactly one fetch per mount, whatever happens afterwards.
C3_SingleFetch ==
    /\ fetchCount <= 1
    /\ pc # "start" => fetchCount = 1

\* After the fetch settled, a row was expanded, switched to radar, and the
\* window resized.
C3_Witness ==
    /\ pc = "done" /\ fetchCount = 1
    /\ ev.kind = "resize"
    /\ \E r \in Rows : open[r] /\ tabValue[r] = 1

\* C4: the mounted view shows exactly one of loading, error, ready: loading
\* until the fetch settles, error or ready from then on, whatever the answer.
C4_ThreeStates ==
    appMounted =>
        /\ View \in {"loading", "error", "ready"}
        /\ pc \in {"start", "fetching", "parsing"} => View = "loading"
        /\ pc = "done" => View \in {"error", "ready"}

\* C5 (as stated): every toggle from collapsed to expanded enters expanded-bar.
C5_AlwaysBar ==
    [][\A r \in AllRows :
        (r \in Rows /\ ~open[r] /\ open'[r]) => tabValue'[r] = 0]_vars

\* C5 (amended): rows start collapsed on the bar tab, and a toggle from
\* collapsed to expanded shows the projection of the persisted tab value.
C5_PersistedTab ==
    /\ [](ev.kind = "settle" => \A r \in Rows : ~open[r] /\ tabValue[r] = 0)
    /\ [][\A r \in AllRows :
            (r \in Rows /\ ~open[r] /\ open'[r]) =>
                /\ tabValue'[r] = tabValue[r]
                /\ contentMounted'[r]]_vars

\* A row has just been re-expanded and shows the radar projection.
C5_Witness ==
    /\ ev.kind = "toggle"
    /\ ev.row \in Rows
    /\ open[ev.row] /\ tabValue[ev.row] = 1

\* C6 (as stated): a listener is registered only while the row is expanded.
C6_OnlyWhileExpanded ==
    \A r \in AllRows : listeners[r] # <<>> => (r \in Rows /\ open[r])

\* C6 (amended): a row holds a resize listener from the first run of its
\* effect after mount until it unmounts, collapsed or expanded alike; it is
\* the handler of the row's current render.
C6_WhileMounted ==
    \A r \in AllRows :
        /\ (listeners[r] # <<>>) <=> (r \in Rows /\ ~effectsPending)
        /\ (r \in Rows /\ ~effectsPending) =>
                listeners[r] = <<Closure(open[r], tabValue[r])>>

\* A row collapsed again still holds its listener.
C6_Witness ==
    /\ ev.kind = "toggle"
    /\ ev.row \in Rows
    /\ ~open[ev.row]
    /\ Len(listeners[ev.row]) = 1

\* C7: a window resize while a row is expanded resizes the chart of its
\* active tab, and whenever a row comes to show a projection (by a toggle
\* from collapsed to expanded, or by a tab switch while expanded) the timer of
\* that render resizes the visible chart, unless the row is collapsed or
\* switched to the other projection before the timer fires.
C7_VisibleChartResized ==
    /\ [](ev.kind = "resize" =>
            \A r \in Rows : open[r] => <<r, tabValue[r]>> \in resized)
    /\ \A r \in AllRows, t \in {0, 1} :
        (ev.kind \in {"toggle", "tab"} /\ ev.row = r /\ open[r] /\ tabValue[r] = t) ~>
            \/ r \notin Rows
            \/ ~open[r]
            \/ tabValue[r] # t
            \/ (ev = [kind |-> "timer", row |-> r] /\ <<r, t>> \in resized)

\* A window resize has resized the radar chart of an expanded row.
C7_Witness ==
    /\ ev.kind = "resize"
    /\ \E r \in Rows : open[r] /\ tabValue[r] = 1 /\ <<r, 1>> \in resized

\* C8: a row never has more than one resize listener, has none once
\* unmounted, and a toggle or tab change of one row leaves the listeners of
\* the other rows alone.
C8_NoListenerLeak ==
    /\ [](\A r \in AllRows :
            /\ Len(listeners[r]) <= 1
            /\ ~appMounted => listeners[r] = <<>>)
    /\ [][\A r \in AllRows :
            (ev'.kind \in {"toggle", "tab"} /\ ev'.row # r) =>
                listeners'[r] = listeners[r]]_vars

\* Row 1 has been through two expansions and a tab switch next to another
\* mounted row; each holds one listener.
C8_Witness ==
    /\ Rows = {1, 2}
    /\ ev = [kind |-> "toggle", row |-> 1]
    /\ open[1] /\ tabValue[1] = 1
    /\ Len(listeners[1]) = 1 /\ Len(listeners[2]) = 1

\* C9: a re-render caused by a toggle or a tab switch reuses the memoised
\* vector (the score set reference is the same).
C9_MemoReused ==
    ev.kind \in {"toggle", "tab"} => recomputed = {}

\* C10: resize() is only ever called on the chart of the active tab of a row
\* that is expanded at that time.
C10_ResizeOnlyOpenActive ==
    \A p \in resized : p[1] \in Rows /\ open[p[1]] /\ p[2] = tabValue[p[1]]

====
